---- MODULE Spec2Model ----
(***************************************************************************)
(* Model of the payment engine (src/src/lib.rs, src/src/account/mod.rs,    *)
(* src/src/transaction/mod.rs).                                            *)
(*                                                                         *)
(* Monetary amounts are f64 in the source.  The model draws amounts from   *)
(* small positive integers; on integers of this size f64 addition,         *)
(* subtraction and comparison are exact, so Int arithmetic is what the     *)
(* code computes on these inputs.                                          *)
(***************************************************************************)
EXTENDS Integers, Sequences, FiniteSets

\* ---------------------------------------------------------------- bounds
\* Amounts run over 1..MaxAmount and a run applies at most MaxRecords records.
MaxAmount == 2
MaxRecords == 4
\* The interleaved specification: the writer applies at most MaxWriterCalls
\* records while NReaders readers take one snapshot each.
MaxWriterCalls == 2
NReaders == 2

\* Two client ids (u16) and two transaction ids (u32): enough for a record
\* that names another client's transaction and for two records that share an id.
ClientIds == {1, 2}
TxIds == {1, 2}
Amounts == 1..MaxAmount

\* ------------------------------------------------- transaction/mod.rs
\* enum Transaction: the seven variants.
Deposit(c, t, a) ==
    [kind |-> "Deposit", client_id |-> c, transaction_id |-> t, amount |-> a]
Withdrawal(c, t, a) ==
    [kind |-> "Withdrawal", client_id |-> c, transaction_id |-> t, amount |-> a]
DisputedDeposit(c, t, a) ==
    [kind |-> "DisputedDeposit", client_id |-> c, transaction_id |-> t, amount |-> a]
DisputedWithdrawal(c, t, a) ==
    [kind |-> "DisputedWithdrawal", client_id |-> c, transaction_id |-> t, amount |-> a]
Dispute(c, t) ==
    [kind |-> "Dispute", client_id |-> c, transaction_id |-> t]
Reslove(c, t) ==
    [kind |-> "Reslove", client_id |-> c, transaction_id |-> t]
Chargeback(c, t) ==
    [kind |-> "Chargeback", client_id |-> c, transaction_id |-> t]

\* Transaction::make_disputed_transaction: Ok((disputed form, amount)) for a
\* Deposit or Withdrawal, Err(self) for every other variant.
make_disputed_transaction(self) ==
    CASE self.kind = "Deposit" ->
           [ok |-> TRUE,
            transaction |-> DisputedDeposit(self.client_id, self.transaction_id, self.amount),
            amount |-> self.amount]
      [] self.kind = "Withdrawal" ->
           [ok |-> TRUE,
            transaction |-> DisputedWithdrawal(self.client_id, self.transaction_id, self.amount),
            amount |-> self.amount]
      [] OTHER -> [ok |-> FALSE, transaction |-> self, amount |-> 0]

\* Transaction::get_disputed_transaction: Ok((primary form, amount)) for a
\* disputed variant, Err(self) otherwise.
get_disputed_transaction(self) ==
    CASE self.kind = "DisputedDeposit" ->
           [ok |-> TRUE,
            transaction |-> Deposit(self.client_id, self.transaction_id, self.amount),
            amount |-> self.amount]
      [] self.kind = "DisputedWithdrawal" ->
           [ok |-> TRUE,
            transaction |-> Withdrawal(self.client_id, self.transaction_id, self.amount),
            amount |-> self.amount]
      [] OTHER -> [ok |-> FALSE, transaction |-> self, amount |-> 0]

\* Transaction::is_disputed
is_disputed(self) == self.kind \in {"DisputedDeposit", "DisputedWithdrawal"}

\* Transaction::is_non_refering
is_non_refering(self) == self.kind \in {"Deposit", "Withdrawal"}

\* ------------------------------------------------------ account/mod.rs
\* Client::new
NewClient(id) == [id |-> id, available |-> 0, held |-> 0, locked |-> FALSE]

\* Client::is_locked
is_locked(self) == self.locked

\* Client::set_locked
set_locked(self, locked) == [self EXCEPT !.locked = locked]

\* The arms of the match in Client::apply_transaction, each giving the client
\* after the arm and the bool it returns.
\* Mutant of DepositArm: the deposit replaces the balance.
DepositArm_Overwrite(self, amount) ==
    [client |-> [self EXCEPT !.available = amount], ret |-> TRUE]

DepositArm(self, amount) ==
    [client |-> [self EXCEPT !.available = @ + amount], ret |-> TRUE]

\* Mutant of WithdrawalArm: the funds check is strict.
WithdrawalArm_Strict(self, amount) ==
    IF self.available > amount
    THEN [client |-> [self EXCEPT !.available = @ - amount], ret |-> TRUE]
    ELSE [client |-> self, ret |-> FALSE]

WithdrawalArm(self, amount) ==
    IF self.available >= amount
    THEN [client |-> [self EXCEPT !.available = @ - amount], ret |-> TRUE]
    ELSE [client |-> self, ret |-> FALSE]

\* Mutant of DisputeArm: a Dispute is applied only when available covers it.
DisputeArm_Checked(self, amount) ==
    IF self.available >= amount
    THEN [client |-> [self EXCEPT !.available = @ - amount, !.held = @ + amount],
          ret |-> TRUE]
    ELSE [client |-> self, ret |-> FALSE]

DisputeArm(self, amount) ==
    [client |-> [self EXCEPT !.available = @ - amount, !.held = @ + amount],
     ret |-> TRUE]

ResloveArm(self, amount) ==
    [client |-> [self EXCEPT !.available = @ + amount, !.held = @ + amount],
     ret |-> TRUE]

\* Mutant of ChargebackArm: the account is not locked.
ChargebackArm_NoLock(self, amount) ==
    [client |-> [self EXCEPT !.available = @ - amount, !.held = @ - amount],
     ret |-> TRUE]

ChargebackArm(self, amount) ==
    [client |-> set_locked([self EXCEPT !.available = @ - amount, !.held = @ - amount],
                           TRUE),
     ret |-> TRUE]

\* Mutant of apply_transaction: a disputed-form record is applied as the
\* Deposit it was made from.
apply_transaction_DisputedAsDeposit(self, transaction, amount) ==
    IF self.locked
    THEN [client |-> self, ret |-> FALSE]
    ELSE CASE transaction.kind \in {"Deposit", "DisputedDeposit"} ->
                DepositArm(self, transaction.amount)
           [] transaction.kind = "Withdrawal" -> WithdrawalArm(self, amount)
           [] transaction.kind = "Dispute" -> DisputeArm(self, amount)
           [] transaction.kind = "Reslove" -> ResloveArm(self, amount)
           [] transaction.kind = "Chargeback" -> ChargebackArm(self, amount)
           [] OTHER -> [client |-> self, ret |-> FALSE]

\* Client::apply_transaction(&mut self, transaction, amount) -> bool.
\* The result is the client after the call and the returned bool.  The Deposit
\* arm binds `amount` from the record itself; the other arms use the parameter.
apply_transaction(self, transaction, amount) ==
    IF self.locked
    THEN [client |-> self, ret |-> FALSE]
    ELSE CASE transaction.kind = "Deposit" -> DepositArm(self, transaction.amount)
           [] transaction.kind = "Withdrawal" -> WithdrawalArm(self, amount)
           [] transaction.kind = "Dispute" -> DisputeArm(self, amount)
           [] transaction.kind = "Reslove" -> ResloveArm(self, amount)
           [] transaction.kind = "Chargeback" -> ChargebackArm(self, amount)
           [] OTHER -> [client |-> self, ret |-> FALSE]

\* ------------------------------------------------------------- lib.rs
\* HashMap::insert / HashMap::remove on a map modelled as a function whose
\* domain is the set of keys present.
MapInsert(m, k, v) == [x \in (DOMAIN m) \cup {k} |-> IF x = k THEN v ELSE m[x]]
MapRemove(m, k) == [x \in (DOMAIN m) \ {k} |-> m[x]]
EmptyMap == [x \in {} |-> 0]

\* InMemoryTransactionEngine::new
NewEngine ==
    [tranasctions |-> EmptyMap,
     clients |-> EmptyMap,
     blocked_transactions |-> <<>>,
     finalized_transactions |-> <<>>]

\* Mutant of ClientLocked: only Deposit and Withdrawal records are stopped at
\* a locked account.
ClientLocked_PrimaryOnly(eng, t) ==
    /\ is_non_refering(t)
    /\ t.client_id \in DOMAIN eng.clients
    /\ is_locked(eng.clients[t.client_id])

\* add_transaction, lines 53-59: the client of the record exists and is locked.
ClientLocked(eng, t) ==
    /\ t.client_id \in DOMAIN eng.clients
    /\ is_locked(eng.clients[t.client_id])

\* Mutant of AddPrimary: the record is stored whether or not it was applied.
AddPrimary_AlwaysStored(eng, t) ==
    LET existing == IF t.client_id \in DOMAIN eng.clients
                    THEN eng.clients[t.client_id]
                    ELSE NewClient(t.client_id)
        r == apply_transaction(existing, t, t.amount)
    IN  [eng |-> [eng EXCEPT !.clients = MapInsert(eng.clients, t.client_id, r.client),
                             !.tranasctions = MapInsert(@, t.transaction_id, t)],
         ret |-> r.ret]

\* Mutant of AddPrimary: a client created for a rejected record is not inserted.
AddPrimary_RejectedNotInserted(eng, t) ==
    LET existing == IF t.client_id \in DOMAIN eng.clients
                    THEN eng.clients[t.client_id]
                    ELSE NewClient(t.client_id)
        r == apply_transaction(existing, t, t.amount)
        clients1 == MapInsert(eng.clients, t.client_id, r.client)
    IN  IF r.ret
        THEN [eng |-> [eng EXCEPT !.clients = clients1,
                                  !.tranasctions = MapInsert(@, t.transaction_id, t)],
              ret |-> TRUE]
        ELSE [eng |-> eng, ret |-> FALSE]

\* add_transaction, lines 62-79: the Deposit | Withdrawal arm.
AddPrimary(eng, t) ==
    LET existing == IF t.client_id \in DOMAIN eng.clients
                    THEN eng.clients[t.client_id]
                    ELSE NewClient(t.client_id)
        r == apply_transaction(existing, t, t.amount)
        clients1 == MapInsert(eng.clients, t.client_id, r.client)
    IN  IF r.ret
        THEN [eng |-> [eng EXCEPT !.clients = clients1,
                                  !.tranasctions = MapInsert(@, t.transaction_id, t)],
              ret |-> TRUE]
        ELSE [eng |-> [eng EXCEPT !.clients = clients1], ret |-> FALSE]

\* Mutant of AddDispute: the `true` that ends the arm also answers an id that
\* is not in the live store.
AddDispute_AbsentAccepted(eng, t) ==
    IF t.client_id \notin DOMAIN eng.clients
    THEN [eng |-> eng, ret |-> FALSE]
    ELSE IF t.transaction_id \notin DOMAIN eng.tranasctions
    THEN [eng |-> eng, ret |-> TRUE]
    ELSE LET d == make_disputed_transaction(eng.tranasctions[t.transaction_id])
         IN  IF d.ok
             THEN [eng |-> [eng EXCEPT
                     !.clients[t.client_id] = apply_transaction(@, t, d.amount).client,
                     !.tranasctions[t.transaction_id] = d.transaction],
                   ret |-> TRUE]
             ELSE [eng |-> eng, ret |-> TRUE]

\* add_transaction, lines 80-104: the Dispute arm.
AddDispute(eng, t) ==
    IF t.client_id \notin DOMAIN eng.clients
    THEN [eng |-> eng, ret |-> FALSE]
    ELSE IF t.transaction_id \notin DOMAIN eng.tranasctions
    THEN [eng |-> eng, ret |-> FALSE]
    ELSE LET existing_transaction == eng.tranasctions[t.transaction_id]
             removed == MapRemove(eng.tranasctions, t.transaction_id)
             d == make_disputed_transaction(existing_transaction)
         IN  IF d.ok
             THEN [eng |-> [eng EXCEPT
                     !.clients[t.client_id] = apply_transaction(@, t, d.amount).client,
                     !.tranasctions = MapInsert(removed, t.transaction_id, d.transaction)],
                   ret |-> TRUE]
             ELSE [eng |-> [eng EXCEPT
                     !.tranasctions = MapInsert(removed, t.transaction_id, d.transaction)],
                   ret |-> TRUE]

\* Mutant of AddResolveChargeback: the entry is removed from the live store
\* before the client is looked up.
AddResolveChargeback_RemoveFirst(eng, t) ==
    IF t.transaction_id \notin DOMAIN eng.tranasctions
    THEN [eng |-> eng, ret |-> FALSE]
    ELSE LET existing_transaction == eng.tranasctions[t.transaction_id]
             removed == MapRemove(eng.tranasctions, t.transaction_id)
             g == get_disputed_transaction(existing_transaction)
         IN  IF t.client_id \notin DOMAIN eng.clients
             THEN [eng |-> [eng EXCEPT !.tranasctions = removed], ret |-> FALSE]
             ELSE IF is_disputed(existing_transaction)
             THEN [eng |-> [eng EXCEPT
                     !.tranasctions = removed,
                     !.finalized_transactions = Append(@, g.transaction),
                     !.clients[t.client_id] = apply_transaction(@, t, g.amount).client],
                   ret |-> TRUE]
             ELSE [eng |-> eng, ret |-> FALSE]

\* Mutant of AddResolveChargeback: a record found in primary form is not put
\* back into the live store.
AddResolveChargeback_Dropped(eng, t) ==
    IF t.client_id \notin DOMAIN eng.clients
    THEN [eng |-> eng, ret |-> FALSE]
    ELSE IF t.transaction_id \notin DOMAIN eng.tranasctions
    THEN [eng |-> eng, ret |-> FALSE]
    ELSE LET existing_transaction == eng.tranasctions[t.transaction_id]
             removed == MapRemove(eng.tranasctions, t.transaction_id)
             g == get_disputed_transaction(existing_transaction)
         IN  IF is_disputed(existing_transaction)
             THEN [eng |-> [eng EXCEPT
                     !.tranasctions = removed,
                     !.finalized_transactions = Append(@, g.transaction),
                     !.clients[t.client_id] = apply_transaction(@, t, g.amount).client],
                   ret |-> TRUE]
             ELSE [eng |-> [eng EXCEPT !.tranasctions = removed], ret |-> FALSE]

\* add_transaction, lines 105-129: the Reslove | Chargeback arm.
AddResolveChargeback(eng, t) ==
    IF t.client_id \notin DOMAIN eng.clients
    THEN [eng |-> eng, ret |-> FALSE]
    ELSE IF t.transaction_id \notin DOMAIN eng.tranasctions
    THEN [eng |-> eng, ret |-> FALSE]
    ELSE LET existing_transaction == eng.tranasctions[t.transaction_id]
             removed == MapRemove(eng.tranasctions, t.transaction_id)
             g == get_disputed_transaction(existing_transaction)
         IN  IF is_disputed(existing_transaction)
             THEN IF g.ok
                  THEN [eng |-> [eng EXCEPT
                          !.tranasctions = removed,
                          !.finalized_transactions = Append(@, g.transaction),
                          !.clients[t.client_id] = apply_transaction(@, t, g.amount).client],
                        ret |-> TRUE]
                  ELSE [eng |-> [eng EXCEPT !.tranasctions = removed], ret |-> TRUE]
             ELSE [eng |-> [eng EXCEPT
                     !.tranasctions = MapInsert(removed, t.transaction_id, existing_transaction)],
                   ret |-> FALSE]

\* InMemoryTransactionEngine::add_transaction: the engine after the call and
\* the returned bool.
add_transaction(eng, t) ==
    IF ClientLocked(eng, t)
    THEN [eng |-> [eng EXCEPT !.blocked_transactions = Append(@, t)], ret |-> FALSE]
    ELSE CASE t.kind \in {"Deposit", "Withdrawal"} -> AddPrimary(eng, t)
           [] t.kind = "Dispute" -> AddDispute(eng, t)
           [] t.kind \in {"Reslove", "Chargeback"} -> AddResolveChargeback(eng, t)
           [] OTHER -> [eng |-> eng, ret |-> FALSE]

\* Every record the engine can be handed for client c.
RecordsOf(c) ==
    {Deposit(c, t, a) : t \in TxIds, a \in Amounts}
    \cup {Withdrawal(c, t, a) : t \in TxIds, a \in Amounts}
    \cup {DisputedDeposit(c, t, a) : t \in TxIds, a \in Amounts}
    \cup {DisputedWithdrawal(c, t, a) : t \in TxIds, a \in Amounts}
    \cup {Dispute(c, t) : t \in TxIds}
    \cup {Reslove(c, t) : t \in TxIds}
    \cup {Chargeback(c, t) : t \in TxIds}

\* Every record the engine can be handed.
AllRecords == UNION {RecordsOf(c) : c \in ClientIds}

\* ------------------------------------------------------------- state
\* Scenario B of the specification, the records of
\* test_charge_back_should_skip_all_future_transaction (lib.rs, lines 169-182).
ScenarioB == <<Deposit(1, 1, 1), Dispute(1, 1), Chargeback(1, 1)>>

VARIABLES
    tranasctions,            \* HashMap<u32, Transaction>: the live store
    clients,                 \* HashMap<u16, Client>
    blocked_transactions,    \* Vec<Transaction>
    finalized_transactions,  \* Vec<Transaction>
    charged_back,            \* history: clients for which a Chargeback was accepted
    rejected_withdrawals,    \* history: ids of Withdrawals rejected for a client not locked
    replayedB,               \* history: k when the run so far is the first k records
                             \* of ScenarioB, -1 once it is not
    primary_run,             \* history: while the run so far holds only Deposit and
                             \* Withdrawal records of one client: that client (0 before
                             \* the first record), the sum of the deposits and the sum
                             \* of the accepted withdrawals; client -1 once it does not
    primary_clients,         \* history: the client ids of the Deposit and
                             \* Withdrawal records applied so far
    nrecords,                \* number of records applied so far
    tranasctions_mutex,      \* Mutex of tranasctions: the set of its holders (none or one)
    clients_mutex,           \* Mutex of clients: the set of its holders (none or one)
    wpc,                     \* the writer's position in add_transaction
    wresult,                 \* <<what the call leaves>> between its two balance updates
    rpc,                     \* each reader's position in snap_shot_clients
    snapshot,                \* each reader's Vec<Client>, as a set of clients
    torn                     \* history: the reader copied between the two balance
                             \* updates of one record

\* The engine, the run's history, and the threads of the interleaved specification.
engine_vars == <<tranasctions, clients, blocked_transactions, finalized_transactions>>
history_vars == <<charged_back, rejected_withdrawals, replayedB, primary_run,
                  primary_clients>>
thread_vars == <<tranasctions_mutex, clients_mutex, wpc, wresult, rpc, snapshot,
                 torn>>
vars == <<engine_vars, history_vars, nrecords, thread_vars>>

\* The thread that calls add_transaction, and the threads that call
\* snap_shot_clients.
Writer == 0
Readers == 1..NReaders

\* The engine's four fields as one value.
Engine ==
    [tranasctions |-> tranasctions,
     clients |-> clients,
     blocked_transactions |-> blocked_transactions,
     finalized_transactions |-> finalized_transactions]

Init ==
    /\ tranasctions = NewEngine.tranasctions
    /\ clients = NewEngine.clients
    /\ blocked_transactions = NewEngine.blocked_transactions
    /\ finalized_transactions = NewEngine.finalized_transactions
    /\ charged_back = {}
    /\ rejected_withdrawals = {}
    /\ replayedB = 0
    /\ primary_run = [client |-> 0, deposited |-> 0, withdrawn |-> 0]
    /\ primary_clients = {}
    /\ nrecords = 0
    /\ tranasctions_mutex = {}
    /\ clients_mutex = {}
    /\ wpc = "idle"
    /\ wresult = <<>>
    /\ rpc = [r \in Readers |-> "idle"]
    /\ snapshot = [r \in Readers |-> {}]
    /\ torn = [r \in Readers |-> FALSE]

\* The driver (main.rs, lines 22-30) has another record to hand over.
MoreRecords == nrecords < MaxRecords

\* One call engine.add_transaction(t): the engine's fields take the values the
\* call leaves, and the history variables record what happened.
Apply(t) ==
    LET r == add_transaction(Engine, t)
    IN  /\ nrecords' = nrecords + 1
        /\ tranasctions' = r.eng.tranasctions
        /\ clients' = r.eng.clients
        /\ blocked_transactions' = r.eng.blocked_transactions
        /\ finalized_transactions' = r.eng.finalized_transactions
        /\ charged_back' =
             IF t.kind = "Chargeback" /\ r.ret
             THEN charged_back \cup {t.client_id} ELSE charged_back
        /\ rejected_withdrawals' =
             IF t.kind = "Withdrawal" /\ ~r.ret /\ ~ClientLocked(Engine, t)
             THEN rejected_withdrawals \cup {t.transaction_id}
             ELSE rejected_withdrawals
        /\ replayedB' =
             IF /\ replayedB >= 0
                /\ replayedB < Len(ScenarioB)
                /\ t = ScenarioB[replayedB + 1]
             THEN replayedB + 1 ELSE -1
        /\ primary_run' =
             IF is_non_refering(t) /\ primary_run.client \in {0, t.client_id}
             THEN [client |-> t.client_id,
                   deposited |-> primary_run.deposited
                                 + (IF t.kind = "Deposit" THEN t.amount ELSE 0),
                   withdrawn |-> primary_run.withdrawn
                                 + (IF t.kind = "Withdrawal" /\ r.ret THEN t.amount ELSE 0)]
             ELSE [client |-> -1, deposited |-> 0, withdrawn |-> 0]
        /\ primary_clients' =
             IF t.kind \in {"Deposit", "Withdrawal"}
             THEN primary_clients \cup {t.client_id} ELSE primary_clients
        /\ UNCHANGED thread_vars

ApplyDeposit ==
    \E c \in ClientIds, t \in TxIds, a \in Amounts :
        MoreRecords /\ Apply(Deposit(c, t, a))
ApplyWithdrawal ==
    \E c \in ClientIds, t \in TxIds, a \in Amounts :
        MoreRecords /\ Apply(Withdrawal(c, t, a))
ApplyDispute ==
    \E c \in ClientIds, t \in TxIds : MoreRecords /\ Apply(Dispute(c, t))
ApplyReslove ==
    \E c \in ClientIds, t \in TxIds : MoreRecords /\ Apply(Reslove(c, t))
ApplyChargeback ==
    \E c \in ClientIds, t \in TxIds : MoreRecords /\ Apply(Chargeback(c, t))
\* The enum's two internal variants handed to the public add_transaction.
ApplyDisputedDeposit ==
    \E c \in ClientIds, t \in TxIds, a \in Amounts :
        MoreRecords /\ Apply(DisputedDeposit(c, t, a))
ApplyDisputedWithdrawal ==
    \E c \in ClientIds, t \in TxIds, a \in Amounts :
        MoreRecords /\ Apply(DisputedWithdrawal(c, t, a))

Next ==
    \/ ApplyDeposit
    \/ ApplyWithdrawal
    \/ ApplyDispute
    \/ ApplyReslove
    \/ ApplyChargeback
    \/ ApplyDisputedDeposit
    \/ ApplyDisputedWithdrawal

Spec == Init /\ [][Next]_vars

\* ------------------------------------------- the interleaved specification
\* add_transaction and snap_shot_clients step by step, each Mutex::lock a
\* step of its own.  The history variables of Spec are left alone.

\* Mutex::lock returns once nobody holds the mutex.
MutexFree(holders) == holders = {}

\* Mutant of Unlock: the guard is never dropped.
Unlock_Leaked(holders, p) == holders

\* The MutexGuard goes out of scope.
Unlock(holders, p) == holders \ {p}

\* Mutant of ReaderMayLock: the reader reads clients without waiting for the mutex.
ReaderMayLock_NoWait(r) == TRUE

\* snap_shot_clients, line 138: self.clients.lock() returns.
ReaderMayLock(r) == MutexFree(clients_mutex)

\* impl Display for Client: id, available, held, available + held, locked.
Display(client) ==
    [id |-> client.id, available |-> client.available, held |-> client.held,
     total |-> client.available + client.held, locked |-> client.locked]

\* snap_shot_clients, line 139: every value of the clients map, cloned.
snap_shot_clients(eng) == {eng.clients[c] : c \in DOMAIN eng.clients}

\* The clients map after the first of a call's two balance updates: available
\* is written, held and locked are not yet.  A client the call creates is
\* inserted only after apply_transaction returns.
AfterAvailable(result) ==
    [c \in DOMAIN clients |->
        [clients[c] EXCEPT !.available = result.eng.clients[c].available]]

\* The driver calls add_transaction.  The record it passes is first read
\* once both locks are held, and is drawn there.
WriterCall ==
    /\ wpc = "idle"
    /\ nrecords < MaxWriterCalls
    /\ wpc' = "lock_transactions"
    /\ UNCHANGED <<engine_vars, history_vars, nrecords, tranasctions_mutex,
                   clients_mutex, wresult, rpc, snapshot, torn>>

\* add_transaction, line 50.
WriterLockTransactions ==
    /\ wpc = "lock_transactions"
    /\ MutexFree(tranasctions_mutex)
    /\ tranasctions_mutex' = {Writer}
    /\ wpc' = "lock_clients"
    /\ UNCHANGED <<engine_vars, history_vars, nrecords, clients_mutex, wresult, rpc, snapshot, torn>>

\* add_transaction, line 51.
WriterLockClients ==
    /\ wpc = "lock_clients"
    /\ MutexFree(clients_mutex)
    /\ clients_mutex' = {Writer}
    /\ wpc' = "update_available"
    /\ UNCHANGED <<engine_vars, history_vars, nrecords, tranasctions_mutex, wresult, rpc, snapshot, torn>>

\* The call, for the record t it was passed, runs up to its first balance
\* update (self.available).
WriterUpdateAvailable ==
    \E t \in AllRecords :
        /\ wpc = "update_available"
        /\ wresult' = <<add_transaction(Engine, t)>>
        /\ clients' = AfterAvailable(add_transaction(Engine, t))
        /\ wpc' = "update_rest"
        /\ UNCHANGED <<tranasctions, blocked_transactions, finalized_transactions,
                       history_vars, nrecords, tranasctions_mutex, clients_mutex,
                       rpc, snapshot, torn>>

\* The call runs to its return: held, locked, the maps and the two lists.
WriterUpdateRest ==
    /\ wpc = "update_rest"
    /\ tranasctions' = wresult[1].eng.tranasctions
    /\ clients' = wresult[1].eng.clients
    /\ blocked_transactions' = wresult[1].eng.blocked_transactions
    /\ finalized_transactions' = wresult[1].eng.finalized_transactions
    /\ nrecords' = nrecords + 1
    /\ wresult' = <<>>
    /\ wpc' = "unlock_clients"
    /\ UNCHANGED <<history_vars, tranasctions_mutex, clients_mutex, rpc,
                   snapshot, torn>>

\* The guards are dropped in reverse order of declaration: clients first.
WriterUnlockClients ==
    /\ wpc = "unlock_clients"
    /\ clients_mutex' = Unlock(clients_mutex, Writer)
    /\ wpc' = "unlock_transactions"
    /\ UNCHANGED <<engine_vars, history_vars, nrecords, tranasctions_mutex, wresult, rpc, snapshot, torn>>

WriterUnlockTransactions ==
    /\ wpc = "unlock_transactions"
    /\ tranasctions_mutex' = Unlock(tranasctions_mutex, Writer)
    /\ wpc' = "idle"
    /\ UNCHANGED <<engine_vars, history_vars, nrecords, clients_mutex, wresult,
                   rpc, snapshot, torn>>

WriterNext ==
    \/ WriterCall
    \/ WriterLockTransactions
    \/ WriterLockClients
    \/ WriterUpdateAvailable
    \/ WriterUpdateRest
    \/ WriterUnlockClients
    \/ WriterUnlockTransactions

\* A reader calls snap_shot_clients.
ReaderCall(r) ==
    /\ rpc[r] = "idle"
    /\ rpc' = [rpc EXCEPT ![r] = "lock_clients"]
    /\ UNCHANGED <<engine_vars, history_vars, nrecords, tranasctions_mutex,
                   clients_mutex, wpc, wresult, snapshot, torn>>

\* snap_shot_clients, line 138.
ReaderLockClients(r) ==
    /\ rpc[r] = "lock_clients"
    /\ ReaderMayLock(r)
    /\ clients_mutex' = clients_mutex \cup {r}
    /\ rpc' = [rpc EXCEPT ![r] = "copy"]
    /\ UNCHANGED <<engine_vars, history_vars, nrecords, tranasctions_mutex, wpc,
                   wresult, snapshot, torn>>

\* snap_shot_clients, line 139: every value of the map is cloned.
ReaderCopy(r) ==
    /\ rpc[r] = "copy"
    /\ snapshot' = [snapshot EXCEPT ![r] = snap_shot_clients(Engine)]
    /\ torn' = [torn EXCEPT ![r] = (wpc = "update_rest")]
    /\ rpc' = [rpc EXCEPT ![r] = "unlock_clients"]
    /\ UNCHANGED <<engine_vars, history_vars, nrecords, tranasctions_mutex,
                   clients_mutex, wpc, wresult>>

\* snap_shot_clients, line 140: the guard is dropped and the Vec handed to the
\* caller; the model keeps it no longer.
ReaderReturn(r) ==
    /\ rpc[r] = "unlock_clients"
    /\ clients_mutex' = Unlock(clients_mutex, r)
    /\ rpc' = [rpc EXCEPT ![r] = "done"]
    /\ snapshot' = [snapshot EXCEPT ![r] = {}]
    /\ torn' = [torn EXCEPT ![r] = FALSE]
    /\ UNCHANGED <<engine_vars, history_vars, nrecords, tranasctions_mutex, wpc,
                   wresult>>

ReaderNext(r) ==
    \/ ReaderCall(r)
    \/ ReaderLockClients(r)
    \/ ReaderCopy(r)
    \/ ReaderReturn(r)

InterleavedNext == WriterNext \/ \E r \in Readers : ReaderNext(r)

InterleavedSpec == Init /\ [][InterleavedNext]_vars

\* Every thread that can take a step eventually takes one.
FairInterleavedSpec ==
    /\ InterleavedSpec
    /\ WF_vars(WriterNext)
    /\ \A r \in Readers : WF_vars(ReaderNext(r))

\* ------------------------------------------------------------ claims
\* The value add_transaction(record) returns in the current state and the
\* engine it leaves; every formula below speaks of the current (reachable)
\* state as the state before the call.
Call(t) == add_transaction(Engine, t)

\* Ids of the records in the finalized list.
FinalizedIds ==
    {finalized_transactions[i].transaction_id : i \in 1..Len(finalized_transactions)}

\* The account's available before a call: a client without an account gets a
\* fresh one (available 0) in the Deposit | Withdrawal arm.
AvailableOf(c) == IF c \in DOMAIN clients THEN clients[c].available ELSE 0

\* C1: an accepted Resolve of a record stored in disputed form with amount A
\* leaves available = available + A and held = held - A on the account the
\* Resolve names, from every reachable state.
C1_ResolveMovesHeldToAvailable ==
    \A c \in ClientIds, t \in TxIds :
        LET r == Call(Reslove(c, t))
        IN  (/\ c \in DOMAIN clients
             /\ t \in DOMAIN tranasctions
             /\ is_disputed(tranasctions[t])
             /\ r.ret)
            => /\ r.eng.clients[c].available = clients[c].available + tranasctions[t].amount
               /\ r.eng.clients[c].held = clients[c].held - tranasctions[t].amount

\* C2: from a reachable state with an unlocked account and a live primary
\* record, Dispute and then Resolve of that id leave available and held as
\* they were before the Dispute.
C2_DisputeResolveRoundTrip ==
    \A c \in ClientIds, t \in TxIds :
        LET r1 == Call(Dispute(c, t))
            r2 == add_transaction(r1.eng, Reslove(c, t))
        IN  (/\ c \in DOMAIN clients
             /\ ~is_locked(clients[c])
             /\ t \in DOMAIN tranasctions
             /\ is_non_refering(tranasctions[t]))
            => /\ r2.eng.clients[c].available = clients[c].available
               /\ r2.eng.clients[c].held = clients[c].held

\* C3: a Dispute whose id is stored in disputed form returns false and leaves
\* the live store, every account and the finalized list unchanged.
C3_RedisputeRejected ==
    \A c \in ClientIds, t \in TxIds :
        LET r == Call(Dispute(c, t))
        IN  (t \in DOMAIN tranasctions /\ is_disputed(tranasctions[t]))
            => /\ ~r.ret
               /\ r.eng.tranasctions = tranasctions
               /\ r.eng.clients = clients
               /\ r.eng.finalized_transactions = finalized_transactions

\* C4: after deposit(1,1,1), dispute(1,1), chargeback(1,1) on a new engine,
\* account 1 has available 0, held 0, total 0 and is locked, and
\* deposit(1,2,1) is rejected.
C4_ScenarioB ==
    replayedB = Len(ScenarioB)
    => /\ 1 \in DOMAIN clients
       /\ clients[1].available = 0
       /\ clients[1].held = 0
       /\ clients[1].available + clients[1].held = 0
       /\ clients[1].locked
       /\ ~Call(Deposit(1, 2, 1)).ret

\* C5: once a Chargeback has been accepted for a client, every record of any
\* kind carrying that client id is rejected and appended to the blocked list,
\* and the accounts, the live store and the finalized list stay as they were.
C5_LockedClientRecordsBlocked ==
    \A c \in charged_back : \A t \in RecordsOf(c) :
        LET r == Call(t)
        IN  /\ ~r.ret
            /\ r.eng.blocked_transactions = Append(blocked_transactions, t)
            /\ r.eng.clients = clients
            /\ r.eng.tranasctions = tranasctions
            /\ r.eng.finalized_transactions = finalized_transactions

\* C5 witness: a Chargeback was accepted for a client and a later record of
\* that client sits in the blocked list.
C5_Witness ==
    \E i \in 1..Len(blocked_transactions) :
        blocked_transactions[i].client_id \in charged_back

\* C6: a Dispute by a client with an unlocked account of a live primary record
\* with amount A is accepted whatever the balance, takes A from available and
\* adds A to held on the account the Dispute names, leaves the other accounts
\* alone, and stores the record's disputed form with the same client id,
\* transaction id and amount.
C6_DisputeHoldsAmount ==
    \A c \in ClientIds, t \in TxIds :
        LET r == Call(Dispute(c, t))
        IN  (/\ c \in DOMAIN clients
             /\ ~is_locked(clients[c])
             /\ t \in DOMAIN tranasctions
             /\ is_non_refering(tranasctions[t]))
            => /\ r.ret
               /\ r.eng.clients[c].available = clients[c].available - tranasctions[t].amount
               /\ r.eng.clients[c].held = clients[c].held + tranasctions[t].amount
               /\ r.eng.clients[c].locked = clients[c].locked
               /\ \A o \in DOMAIN clients \ {c} : r.eng.clients[o] = clients[o]
               /\ DOMAIN r.eng.clients = DOMAIN clients
               /\ DOMAIN r.eng.tranasctions = DOMAIN tranasctions
               /\ is_disputed(r.eng.tranasctions[t])
               /\ r.eng.tranasctions[t].kind =
                    (IF tranasctions[t].kind = "Deposit"
                     THEN "DisputedDeposit" ELSE "DisputedWithdrawal")
               /\ r.eng.tranasctions[t].client_id = tranasctions[t].client_id
               /\ r.eng.tranasctions[t].transaction_id = tranasctions[t].transaction_id
               /\ r.eng.tranasctions[t].amount = tranasctions[t].amount

\* C6 witness: a live primary record whose amount exceeds the available of an
\* unlocked account; the Dispute is accepted and available goes negative.
C6_Witness ==
    \E c \in ClientIds, t \in TxIds :
        /\ c \in DOMAIN clients
        /\ ~is_locked(clients[c])
        /\ t \in DOMAIN tranasctions
        /\ is_non_refering(tranasctions[t])
        /\ clients[c].available < tranasctions[t].amount
        /\ Call(Dispute(c, t)).ret
        /\ Call(Dispute(c, t)).eng.clients[c].available < 0

\* C7, first part: a Withdrawal for a client that is not locked is accepted
\* iff amount <= available; a rejected one leaves available and the live
\* store unchanged.
WithdrawalRule ==
    \A c \in ClientIds, t \in TxIds, a \in Amounts :
        LET w == Withdrawal(c, t, a)
            r == Call(w)
        IN  ~ClientLocked(Engine, w)
            => /\ r.ret <=> (a <= AvailableOf(c))
               /\ ~r.ret => /\ r.eng.clients[c].available = AvailableOf(c)
                            /\ r.eng.tranasctions = tranasctions

\* C7 as stated: the first part, and every later Dispute that names the id of
\* a rejected Withdrawal is rejected.
C7_AsStated ==
    /\ WithdrawalRule
    /\ \A c \in ClientIds, t \in rejected_withdrawals : ~Call(Dispute(c, t)).ret

\* C7 as amended: the first part, and a later Dispute that names the id of a
\* rejected Withdrawal is rejected as long as the live store holds no record
\* under that id (one stored by another accepted Deposit or Withdrawal that
\* carries the same id).
C7_WithdrawalIffSufficient ==
    /\ WithdrawalRule
    /\ \A c \in ClientIds, t \in rejected_withdrawals \ DOMAIN tranasctions :
           LET r == Call(Dispute(c, t))
           IN  /\ ~r.ret
               /\ r.eng.clients = clients
               /\ r.eng.tranasctions = tranasctions

\* C7 witness: a Withdrawal was rejected, its id is in no stored record, and
\* an account exists whose Dispute of that id is refused.
C7_Witness ==
    \E c \in DOMAIN clients, t \in rejected_withdrawals \ DOMAIN tranasctions :
        /\ ~is_locked(clients[c])
        /\ ~Call(Dispute(c, t)).ret
        /\ \E a \in Amounts : a > clients[c].available /\ ~Call(Withdrawal(c, t, a)).ret

\* C8: a Resolve or Chargeback of an id stored in primary form is rejected,
\* changes no account (no balance, no lock), leaves the live store and the
\* finalized list as they were, and a Dispute of that id by any client with
\* an unlocked account is accepted afterwards.
C8_UndisputedResolveChargebackRejected ==
    \A c \in ClientIds, t \in TxIds :
        \A rec \in {Reslove(c, t), Chargeback(c, t)} :
            LET r == Call(rec)
            IN  (t \in DOMAIN tranasctions /\ is_non_refering(tranasctions[t]))
                => /\ ~r.ret
                   /\ r.eng.clients = clients
                   /\ r.eng.tranasctions = tranasctions
                   /\ r.eng.finalized_transactions = finalized_transactions
                   /\ \A d \in DOMAIN r.eng.clients :
                        ~is_locked(r.eng.clients[d])
                        => add_transaction(r.eng, Dispute(d, t)).ret

\* C8 witness: an unlocked account and an id stored in primary form: the
\* Chargeback is refused and the Dispute that follows it is accepted.
C8_Witness ==
    \E c \in DOMAIN clients, t \in DOMAIN tranasctions :
        /\ ~is_locked(clients[c])
        /\ is_non_refering(tranasctions[t])
        /\ ~Call(Chargeback(c, t)).ret
        /\ add_transaction(Call(Chargeback(c, t)).eng, Dispute(c, t)).ret

\* C9: an accepted Resolve or Chargeback of a disputed record removes its id
\* from the live store and appends its primary form (same client id,
\* transaction id and amount) to the finalized list, and every later Dispute,
\* Resolve or Chargeback naming a finalized id is rejected.
C9_FinalizedIdNeverEligibleAgain ==
    /\ \A c \in ClientIds, t \in TxIds :
         \A rec \in {Reslove(c, t), Chargeback(c, t)} :
            LET r == Call(rec)
            IN  (t \in DOMAIN tranasctions /\ is_disputed(tranasctions[t]) /\ r.ret)
                => /\ t \notin DOMAIN r.eng.tranasctions
                   /\ r.eng.finalized_transactions =
                        Append(finalized_transactions,
                               [kind |-> IF tranasctions[t].kind = "DisputedDeposit"
                                         THEN "Deposit" ELSE "Withdrawal",
                                client_id |-> tranasctions[t].client_id,
                                transaction_id |-> tranasctions[t].transaction_id,
                                amount |-> tranasctions[t].amount])
    /\ \A c \in ClientIds, t \in FinalizedIds :
         \A rec \in {Dispute(c, t), Reslove(c, t), Chargeback(c, t)} :
            ~Call(rec).ret

\* C10: a Deposit or Withdrawal whose id is in the live store (in primary or
\* disputed form) or in the finalized list never creates or replaces a
\* live-store entry.
C10_IdClaimedAtMostOnce ==
    \A c \in ClientIds, t \in TxIds, a \in Amounts :
        \A rec \in {Deposit(c, t, a), Withdrawal(c, t, a)} :
            (t \in DOMAIN tranasctions \/ t \in FinalizedIds)
            => Call(rec).eng.tranasctions = tranasctions

\* The three reference records naming client c and id t.
ReferenceRecords(c, t) == {Dispute(c, t), Reslove(c, t), Chargeback(c, t)}

\* The two disputed-form records handed in as input.
DisputedForms(c, t, a) == {DisputedDeposit(c, t, a), DisputedWithdrawal(c, t, a)}

\* C11: whenever add_transaction returns false, every account that existed
\* keeps its available and held, an account the call creates has available 0
\* and held 0, the live store and the finalized list are as before, and the
\* blocked list is as before or has the record appended.
C11_RejectionChangesNothing ==
    \A t \in AllRecords :
        LET r == Call(t)
        IN  ~r.ret
            => /\ \A c \in DOMAIN clients :
                    /\ c \in DOMAIN r.eng.clients
                    /\ r.eng.clients[c].available = clients[c].available
                    /\ r.eng.clients[c].held = clients[c].held
               /\ \A c \in DOMAIN r.eng.clients \ DOMAIN clients :
                    r.eng.clients[c].available = 0 /\ r.eng.clients[c].held = 0
               /\ r.eng.tranasctions = tranasctions
               /\ r.eng.finalized_transactions = finalized_transactions
               /\ r.eng.blocked_transactions
                    \in {blocked_transactions, Append(blocked_transactions, t)}

\* C11 witness: a state with a stored record and a locked account, from which
\* one record is rejected into the blocked list and another is rejected with
\* the blocked list as it was.
C11_Witness ==
    /\ tranasctions # EmptyMap
    /\ \E t \in AllRecords :
         /\ ~Call(t).ret
         /\ Call(t).eng.blocked_transactions = Append(blocked_transactions, t)
    /\ \E t \in AllRecords :
         /\ ~Call(t).ret
         /\ Call(t).eng.blocked_transactions = blocked_transactions

\* C12: after a run of only Deposit and Withdrawal records of one client from
\* a new engine, available is the sum of the deposits minus the sum of the
\* accepted withdrawals, and held is 0.
C12_AvailableIsDepositsMinusWithdrawals ==
    primary_run.client \in ClientIds
    => /\ primary_run.client \in DOMAIN clients
       /\ clients[primary_run.client].available
            = primary_run.deposited - primary_run.withdrawn
       /\ clients[primary_run.client].held = 0

\* C12 witness: such a run with a deposit, an accepted withdrawal and a
\* rejected withdrawal in it.
C12_Witness ==
    /\ primary_run.client \in ClientIds
    /\ primary_run.deposited > 0
    /\ primary_run.withdrawn > 0
    /\ rejected_withdrawals # {}

\* C13: an account is locked exactly when a Chargeback was accepted for its
\* client earlier in the run; no call unlocks a locked account, and the only
\* call that locks one is an accepted Chargeback carrying its client id.
C13_LockMonotonic ==
    /\ \A c \in DOMAIN clients : is_locked(clients[c]) <=> c \in charged_back
    /\ charged_back \subseteq DOMAIN clients
    /\ \A t \in AllRecords :
         LET r == Call(t)
         IN  /\ \A c \in DOMAIN clients :
                  is_locked(clients[c])
                  => c \in DOMAIN r.eng.clients /\ is_locked(r.eng.clients[c])
             /\ \A c \in DOMAIN r.eng.clients :
                  (is_locked(r.eng.clients[c])
                   /\ ~(c \in DOMAIN clients /\ is_locked(clients[c])))
                  => t.kind = "Chargeback" /\ r.ret /\ t.client_id = c

\* C13 witness: a locked account and records applied after it was locked.
C13_Witness ==
    /\ \E c \in DOMAIN clients : is_locked(clients[c])
    /\ blocked_transactions # <<>>

\* C15: an accepted Dispute, Resolve or Chargeback changes the account whose
\* client id is the one stored in the referenced record, and no other
\* account, also when the reference record carries another client id.
C15_ReferenceChangesOwnerOnly ==
    \A c \in ClientIds, t \in TxIds : \A rec \in ReferenceRecords(c, t) :
        LET r == Call(rec)
        IN  (r.ret /\ t \in DOMAIN tranasctions)
            => \A o \in DOMAIN clients \ {tranasctions[t].client_id} :
                   r.eng.clients[o] = clients[o]

\* C16: a Dispute, Resolve or Chargeback whose id is not in the live store,
\* from a client with an unlocked account, is rejected and changes no
\* account, live-store or finalized state.
C16_UnknownReferenceRejected ==
    \A c \in DOMAIN clients, t \in TxIds \ DOMAIN tranasctions :
        \A rec \in ReferenceRecords(c, t) :
            LET r == Call(rec)
            IN  ~is_locked(clients[c])
                => /\ ~r.ret
                   /\ r.eng.clients = clients
                   /\ r.eng.tranasctions = tranasctions
                   /\ r.eng.finalized_transactions = finalized_transactions

\* C16 witness: an unlocked account, a non-empty live store and an id that
\* was finalized and is no longer stored.
C16_Witness ==
    /\ \E c \in DOMAIN clients : ~is_locked(clients[c])
    /\ tranasctions # EmptyMap
    /\ FinalizedIds \ DOMAIN tranasctions # {}

\* C17: a Dispute, Resolve or Chargeback whose client has no account is
\* rejected, leaves every live-store entry (the one under its id included)
\* as it was, and creates no account.
C17_ReferenceWithoutAccountRejected ==
    \A c \in ClientIds \ DOMAIN clients, t \in TxIds :
        \A rec \in ReferenceRecords(c, t) :
            LET r == Call(rec)
            IN  /\ ~r.ret
                /\ r.eng.tranasctions = tranasctions
                /\ r.eng.clients = clients
                /\ r.eng.finalized_transactions = finalized_transactions

\* C17 witness: a client without an account while the live store holds a
\* record in primary form and a record in disputed form.
C17_Witness ==
    /\ ClientIds \ DOMAIN clients # {}
    /\ \E t \in DOMAIN tranasctions : is_non_refering(tranasctions[t])
    /\ \E t \in DOMAIN tranasctions : is_disputed(tranasctions[t])

\* C18: a DisputedDeposit or DisputedWithdrawal handed to add_transaction for
\* a client that is not locked is rejected and changes nothing; handed to
\* Client::apply_transaction it returns false and leaves the client as it was.
C18_DisputedFormRejected ==
    /\ \A c \in ClientIds, t \in TxIds, a \in Amounts :
         \A rec \in DisputedForms(c, t, a) :
            ~ClientLocked(Engine, rec)
            => /\ ~Call(rec).ret
               /\ Call(rec).eng = Engine
    /\ \A c \in DOMAIN clients, o \in ClientIds, t \in TxIds, a \in Amounts, b \in Amounts :
         \A rec \in DisputedForms(o, t, a) :
            /\ ~apply_transaction(clients[c], rec, b).ret
            /\ apply_transaction(clients[c], rec, b).client = clients[c]

\* C18 witness: an unlocked account with a balance and a non-empty live store.
C18_Witness ==
    /\ tranasctions # EmptyMap
    /\ \E c \in DOMAIN clients :
         /\ ~is_locked(clients[c])
         /\ clients[c].available > 0
         /\ ~Call(DisputedDeposit(c, 1, 1)).ret

\* The sum of the amounts of the records stored in disputed form for client c.
RECURSIVE SumDisputed(_, _)
SumDisputed(c, ids) ==
    IF ids = {} THEN 0
    ELSE LET t == CHOOSE x \in ids : TRUE
         IN  (IF is_disputed(tranasctions[t]) /\ tranasctions[t].client_id = c
              THEN tranasctions[t].amount ELSE 0)
             + SumDisputed(c, ids \ {t})

\* C20: for every client, held is the sum of the amounts of the records
\* stored in disputed form under that client id (0 when there are none).
C20_HeldIsSumOfDisputed ==
    \A c \in DOMAIN clients : clients[c].held = SumDisputed(c, DOMAIN tranasctions)

\* C21: an account exists for a client id exactly when a Deposit or Withdrawal
\* record carrying that id has been applied, accepted or not; a Withdrawal for
\* an unseen client is rejected and leaves a new account with available 0,
\* held 0 and locked false, which a snapshot then shows; and no other record
\* creates an account.
C21_AccountIffPrimaryRecordApplied ==
    /\ DOMAIN clients = primary_clients
    /\ \A t \in AllRecords :
         LET r == Call(t)
             c == t.client_id
         IN  /\ t.kind \in {"Deposit", "Withdrawal"}
                  => DOMAIN r.eng.clients = DOMAIN clients \cup {c}
             /\ t.kind \notin {"Deposit", "Withdrawal"}
                  => DOMAIN r.eng.clients = DOMAIN clients
             /\ (t.kind = "Withdrawal" /\ c \notin DOMAIN clients)
                  => /\ ~r.ret
                     /\ r.eng.clients[c]
                          = [id |-> c, available |-> 0, held |-> 0, locked |-> FALSE]
                     /\ \E v \in snap_shot_clients(r.eng) :
                          Display(v) = [id |-> c, available |-> 0, held |-> 0,
                                        total |-> 0, locked |-> FALSE]

\* C21 witness: the only account is one a rejected Withdrawal created, still
\* with nothing in it, a record other than a Deposit or Withdrawal has been
\* applied too, and no reference record of the other client would create an
\* account for it.
C21_Witness ==
    \E c, d \in ClientIds :
        /\ DOMAIN clients = {c}
        /\ clients[c] = NewClient(c)
        /\ tranasctions = EmptyMap
        /\ rejected_withdrawals # {}
        /\ primary_run.client = -1
        /\ d # c
        /\ \A t \in ReferenceRecords(d, 1) : d \notin DOMAIN Call(t).eng.clients

\* ------------------------------------------- claims of the interleaved specification

\* A reader's snapshot is a view of the engine's accounts as they stand.
ViewOf(account) ==
    [id |-> account.id, available |-> account.available, held |-> account.held,
     total |-> account.available + account.held, locked |-> account.locked]

\* C14: a snapshot holds exactly one view for every account the engine knows;
\* its available, held, total = available + held and locked are the engine's
\* at a point where no apply is between the two balance updates of a record;
\* and no step of a snapshot changes the accounts, the live store, the blocked
\* list or the finalized list.
C14_SnapshotIsOneConsistentView ==
    /\ [](\A r \in Readers :
            rpc[r] = "unlock_clients" =>
                /\ ~torn[r]
                /\ wpc # "update_rest"
                /\ \A c \in DOMAIN clients :
                       Cardinality({v \in snapshot[r] : v.id = c}) = 1
                /\ \A v \in snapshot[r] :
                       /\ v.id \in DOMAIN clients
                       /\ Display(v) = ViewOf(clients[v.id])
                       /\ Display(v).total = clients[v.id].available + clients[v.id].held)
    /\ [][(\E r \in Readers : ReaderNext(r)) => UNCHANGED engine_vars]_vars

\* A reader holds a snapshot with a funded account in it while the writer,
\* inside its next add_transaction, waits for the account-map lock.
C14_Witness ==
    \E r \in Readers :
        /\ rpc[r] = "unlock_clients"
        /\ \E v \in snapshot[r] : v.available > 0
        /\ wpc = "lock_clients"

\* What each thread holds at each position: the writer takes the
\* transaction-map lock and then the account-map lock, a reader takes only the
\* account-map lock, and a thread outside its call holds nothing.
LockDiscipline ==
    /\ tranasctions_mutex \subseteq {Writer}
    /\ Cardinality(clients_mutex) <= 1
    /\ Writer \in clients_mutex => Writer \in tranasctions_mutex
    /\ wpc \in {"idle", "lock_transactions"} =>
           Writer \notin tranasctions_mutex \cup clients_mutex
    /\ wpc = "lock_clients" =>
           Writer \in tranasctions_mutex /\ Writer \notin clients_mutex
    /\ wpc \in {"update_available", "update_rest", "unlock_clients"} =>
           Writer \in tranasctions_mutex /\ Writer \in clients_mutex
    /\ \A r \in Readers :
           /\ r \notin tranasctions_mutex
           /\ r \in clients_mutex <=> rpc[r] \in {"copy", "unlock_clients"}

\* Every call the threads make has returned: the writer's MaxWriterCalls
\* applies and each reader's snapshot.
AllReturned ==
    /\ wpc = "idle"
    /\ nrecords = MaxWriterCalls
    /\ \A r \in Readers : rpc[r] = "done"

\* C19: every apply and every snapshot returns with every lock it took
\* released; apply takes the transaction-map lock and then the account-map
\* lock, snapshot only the account-map lock; and with one writer and any
\* readers no state is reached where the threads still inside a call are all
\* stuck, and no thread waits forever: every call eventually returns.
C19_CallsTerminateAndReleaseLocks ==
    /\ []LockDiscipline
    /\ [](AllReturned \/ ENABLED InterleavedNext)
    /\ <>[]AllReturned

\* One snapshot has returned, and another reader waits for the account-map
\* lock while the writer, holding both locks, is between its two balance updates.
C19_Witness ==
    \E r1, r2 \in Readers :
        /\ rpc[r1] = "done"
        /\ rpc[r2] = "lock_clients"
        /\ wpc = "update_rest"
        /\ clients_mutex = {Writer}
        /\ tranasctions_mutex = {Writer}
====
